---- MODULE Spec2Model ----
(***************************************************************************)
(* NiBetaSeries, workflows/base.py: the trial-count filter _check_bs_len   *)
(* and the workflow assembly of init_single_subject_wf and                 *)
(* init_nibetaseries_participant_wf.                                       *)
(*                                                                         *)
(* Spec    : one call of _check_bs_len on an arbitrary list of paths.      *)
(* SpecWf  : assembly of the participant workflow, then execution of its   *)
(*           per-run instances by the workflow engine.                     *)
(***************************************************************************)
EXTENDS Integers, Sequences, FiniteSets, TLC

VARIABLES
    \* ---- one call of _check_bs_len
    pc,               \* "idle" | "comp" | "test" | "returned" | "raised"
    lists,            \* heap of list objects: list id -> sequence of paths
    bsl,              \* list id the local name beta_series_list is bound to
    i,                \* position of the list comprehension in its input
    log,              \* records emitted through logging.warning, in order
    ret,              \* list id returned (NoRet while nothing is returned)
    arg0,             \* contents of the caller's list when the call began
    files,            \* the images on disk: path -> image shape
    \* ---- init_nibetaseries_participant_wf / init_single_subject_wf
    atlas_img,        \* parameter atlas_img
    atlas_lut,        \* parameter atlas_lut
    return_residuals, \* parameter return_residuals
    subject_list,     \* parameter subject_list
    ppc,              \* "off" | "loop" | "returned"
    pwf,              \* names of the workflows added to the participant graph
    wfs,              \* subject label -> the workflow built for it
    cfgs,             \* heap of config objects: owner -> config
    touched,          \* owners whose config was changed after assembly
    \* ---- execution of one (subject, run) instance by the engine
    inst,             \* {} or {the instance being executed}
    ran,              \* node -> the inputs it was run with
    outs              \* <<node, field>> -> the value the node produced

filter_vars == <<pc, lists, bsl, i, log, ret, arg0>>
build_vars  == <<atlas_img, atlas_lut, return_residuals, subject_list,
                 ppc, pwf, wfs, cfgs, touched>>
exec_vars   == <<inst, ran, outs>>
vars        == <<filter_vars, files, build_vars, exec_vars>>

(***************************************************************************)
(* Bounds                                                                  *)
(***************************************************************************)
MaxLen == 3        \* longest list handed to _check_bs_len in Spec

(***************************************************************************)
(* Paths and the images behind them.  A path is the sequence of its        *)
(* characters; FileShape is what nib.load(path).shape yields.              *)
(***************************************************************************)
Digit == {"0","1","2","3","4","5","6","7","8","9"}
Upper == {"A","B","C","D","E","F","G","H","I","J","K","L","M",
          "N","O","P","Q","R","S","T","U","V","W","X","Y","Z"}
Lower == {"a","b","c","d","e","f","g","h","i","j","k","l","m",
          "n","o","p","q","r","s","t","u","v","w","x","y","z"}
AlNum == Digit \cup Upper \cup Lower          \* [0-9A-Za-z]

P_faces   == <<"d","e","s","c","-","F","A","C","E","S","_","b">>
P_nodesc  == <<"s","u","b","_","x">>
P_three   == <<"d","e","s","c","-","A","1","_","b">>
P_five    == <<"b","s","5">>
P_twice   == <<"d","e","s","c","-","a","_","d","e","s","c","-","b","_">>
P_newline == <<"\n","d","e","s","c","-","a","_">>
P_empty   == <<"d","e","s","c","-","_","x","_">>

Paths == {P_faces, P_nodesc, P_three, P_five, P_twice, P_newline, P_empty}

ImageShapeOf(path) ==
    CASE path = P_faces   -> <<4, 4, 4, 2>>
      [] path = P_nodesc  -> <<4, 4, 4, 1>>
      [] path = P_three   -> <<4, 4, 4, 3>>
      [] path = P_five    -> <<4, 4, 5>>
      [] path = P_twice   -> <<4, 4, 4, 1>>
      [] path = P_newline -> <<4, 4, 4, 2>>
      [] path = P_empty   -> <<4, 4, 4, 4>>

ImagesOnDisk == [path \in Paths |-> ImageShapeOf(path)]

\* nib.load(path).shape: read from the image on disk
FileShape(path) == files[path]

UNKNOWN == <<"U","N","K","N","O","W","N">>
DescDash == <<"d","e","s","c","-">>

(***************************************************************************)
(* re.match(".*desc-(?P<trial_type>[0-9A-Za-z]+)_.*", s)                   *)
(***************************************************************************)
\* positions p at which "desc-" starts, is preceded only by characters "."
\* matches (anything but a newline), and is followed by one or more
\* alphanumerics and then "_"
GroupEnd(s, p) ==
    \* the position of the "_" that closes the group opened after s[p..p+4]
    {q \in (p + 6)..Len(s) :
        /\ s[q] = "_"
        /\ \A j \in (p + 5)..(q - 1) : s[j] \in AlNum}

MatchStarts(s) ==
    {p \in 1..Len(s) :
        /\ p + 4 <= Len(s)
        /\ SubSeq(s, p, p + 4) = DescDash
        /\ \A j \in 1..(p - 1) : s[j] # "\n"
        /\ GroupEnd(s, p) # {}}

Range(s) == {s[j] : j \in 1..Len(s)}

SetMax(S) == CHOOSE x \in S : \A y \in S : y <= x

ReMatch(s) == MatchStarts(s) # {}

\* the leading ".*" is greedy: the group is taken at the last possible "desc-"
TrialTypeGroup(s) ==
    LET p == SetMax(MatchStarts(s))
        q == SetMax(GroupEnd(s, p))
    IN  SubSeq(s, p + 5, q - 1)

(***************************************************************************)
(* _check_bs_len                                                           *)
(***************************************************************************)
min_size == 3

Caller == 1      \* the list object the caller passes in
Fresh  == 2      \* the list object the comprehension builds
NoRet  == 0

WarnUnknown(file) == <<"unknown trial_type", file>>
WarnFew(min, trial_type, num) == <<"too few trials", min, trial_type, num>>

\* check_beta_series with the comparison size <= min_size
check_beta_series_le(beta_series, min) ==
    LET shape == FileShape(beta_series)
        size  == shape[Len(shape)]
    IN  IF size <= min
        THEN IF ReMatch(beta_series)
             THEN [keep |-> FALSE,
                   logs |-> <<WarnFew(min, TrialTypeGroup(beta_series), size)>>]
             ELSE [keep |-> FALSE,
                   logs |-> <<WarnUnknown(beta_series),
                              WarnFew(min, UNKNOWN, size)>>]
        ELSE [keep |-> TRUE, logs |-> <<>>]

\* check_beta_series with the label looked up for every file, kept or not
check_beta_series_label_first(beta_series, min) ==
    LET shape == FileShape(beta_series)
        size  == shape[Len(shape)]
        unk   == IF ReMatch(beta_series) THEN <<>>
                 ELSE <<WarnUnknown(beta_series)>>
        tt    == IF ReMatch(beta_series) THEN TrialTypeGroup(beta_series)
                 ELSE UNKNOWN
    IN  IF size < min
        THEN [keep |-> FALSE, logs |-> unk \o <<WarnFew(min, tt, size)>>]
        ELSE [keep |-> TRUE, logs |-> unk]

\* check_beta_series(beta_series, min_size): its verdict and what it logs
check_beta_series(beta_series, min) ==
    LET shape == FileShape(beta_series)
        size  == shape[Len(shape)]
    IN  IF size < min
        THEN IF ReMatch(beta_series)
             THEN [keep |-> FALSE,
                   logs |-> <<WarnFew(min, TrialTypeGroup(beta_series), size)>>]
             ELSE [keep |-> FALSE,
                   logs |-> <<WarnUnknown(beta_series),
                              WarnFew(min, UNKNOWN, size)>>]
        ELSE [keep |-> TRUE, logs |-> <<>>]

\* the comprehension with its results collected in reverse
CompStepReversed ==
    /\ pc = "comp"
    /\ i <= Len(lists[bsl])
    /\ LET bs == lists[bsl][i]
           r  == check_beta_series(bs, min_size)
       IN  /\ log' = log \o r.logs
           /\ lists' = [lists EXCEPT ![Fresh] = IF r.keep THEN <<bs>> \o @ ELSE @]
    /\ i' = i + 1
    /\ UNCHANGED <<pc, bsl, ret, arg0>>

\* one element of the comprehension [bs for bs in beta_series_list if ...]
CompStep ==
    /\ pc = "comp"
    /\ i <= Len(lists[bsl])
    /\ LET bs == lists[bsl][i]
           r  == check_beta_series(bs, min_size)
       IN  /\ log' = log \o r.logs
           /\ lists' = [lists EXCEPT ![Fresh] = IF r.keep THEN Append(@, bs) ELSE @]
    /\ i' = i + 1
    /\ UNCHANGED <<pc, bsl, ret, arg0>>

\* the comprehension's list bound to the local name, the caller's list left alone
Rebind ==
    /\ pc = "comp"
    /\ i > Len(lists[bsl])
    /\ bsl' = Fresh
    /\ pc' = "test"
    /\ UNCHANGED <<lists, i, log, ret, arg0>>

\* beta_series_list[:] = <the comprehension's list>
SliceAssign ==
    /\ pc = "comp"
    /\ i > Len(lists[bsl])
    /\ lists' = [lists EXCEPT ![bsl] = lists[Fresh]]
    /\ pc' = "test"
    /\ UNCHANGED <<bsl, i, log, ret, arg0>>

\* if not beta_series_list: raise RuntimeError(msg)
Raise ==
    /\ pc = "test"
    /\ lists[bsl] = <<>>
    /\ pc' = "raised"
    /\ UNCHANGED <<lists, bsl, i, log, ret, arg0>>

\* return without the emptiness test
ReturnUnchecked ==
    /\ pc = "test"
    /\ ret' = bsl
    /\ pc' = "returned"
    /\ UNCHANGED <<lists, bsl, i, log, arg0>>

\* return beta_series_list
Return ==
    /\ pc = "test"
    /\ lists[bsl] # <<>>
    /\ ret' = bsl
    /\ pc' = "returned"
    /\ UNCHANGED <<lists, bsl, i, log, arg0>>

FilterStep ==
    /\ (CompStep \/ SliceAssign \/ Raise \/ Return)
    /\ UNCHANGED <<files, build_vars, exec_vars>>

(***************************************************************************)
(* Spec: a call of _check_bs_len on any list of at most MaxLen paths       *)
(***************************************************************************)
RECURSIVE SeqsUpTo(_, _)
SeqsUpTo(S, n) ==
    IF n = 0 THEN {<<>>}
    ELSE LET shorter == SeqsUpTo(S, n - 1)
         IN  shorter \cup {Append(s, x) : s \in shorter, x \in S}

NoneVal == "<None>"

Init ==
    /\ arg0 \in SeqsUpTo(Paths, MaxLen)
    /\ lists = <<arg0, <<>>>>
    /\ bsl = Caller
    /\ i = 1
    /\ log = <<>>
    /\ ret = NoRet
    /\ pc = "comp"
    /\ files = ImagesOnDisk
    /\ atlas_img = NoneVal
    /\ atlas_lut = NoneVal
    /\ return_residuals = FALSE
    /\ subject_list = <<>>
    /\ ppc = "off"
    /\ pwf = <<>>
    /\ wfs = <<>>
    /\ cfgs = <<>>
    /\ touched = {}
    /\ inst = {}
    /\ ran = <<>>
    /\ outs = <<>>

Next == FilterStep

Spec == Init /\ [][Next]_vars

(***************************************************************************)
(* Bounds and input domains of the workflow assembly                       *)
(***************************************************************************)
MaxRuns == 2       \* most runs collect_data yields for one subject
MaxTT   == 2       \* most beta-series files one run yields

SubjectLabels == {"01", "02"}
AtlasVals     == {NoneVal, "", "atlas"}     \* None, empty string, a path
output_dir    == "out"
CensoredPaths == {P_faces, P_three}         \* what censoring may hand on

Truthy(x) == x \notin {NoneVal, ""}         \* Python truth value of str/None

\* duplicate-free subject lists
SubjectLists ==
    {sl \in SeqsUpTo(SubjectLabels, Cardinality(SubjectLabels)) :
        \A a \in 1..Len(sl), b \in 1..Len(sl) : a # b => sl[a] # sl[b]}

(***************************************************************************)
(* collect_data: one record per run of the subject                         *)
(***************************************************************************)
RunRecord(subject, run) ==
    [preproc   |-> <<"preproc", subject, run>>,
     brainmask |-> <<"brainmask", subject, run>>,
     confounds |-> <<"confounds", subject, run>>,
     events    |-> <<"events", subject, run>>,
     metadata  |-> <<"metadata", subject, run>>]

SubjectData(subject, n) == [r \in 1..n |-> RunRecord(subject, r)]

(***************************************************************************)
(* init_single_subject_wf                                                  *)
(***************************************************************************)
Edge(src, srcfield, dst, dstfield) == <<src, srcfield, dst, dstfield>>

IterFields == {"brainmask", "confound_tsv", "events_tsv", "preproc_img",
               "bold_metadata"}

\* input_node with synchronize=False
InputNodeUnsynchronized(brainmask_list, confound_tsv_list, events_tsv_list, preproc_img_list, bold_metadata_list) ==
    [iterables   |-> [brainmask     |-> brainmask_list,
                      confound_tsv  |-> confound_tsv_list,
                      events_tsv    |-> events_tsv_list,
                      preproc_img   |-> preproc_img_list,
                      bold_metadata |-> bold_metadata_list],
     synchronize |-> FALSE]

\* input_node: its iterables and the synchronize flag
InputNode(brainmask_list, confound_tsv_list, events_tsv_list, preproc_img_list, bold_metadata_list) ==
    [iterables   |-> [brainmask     |-> brainmask_list,
                      confound_tsv  |-> confound_tsv_list,
                      events_tsv    |-> events_tsv_list,
                      preproc_img   |-> preproc_img_list,
                      bold_metadata |-> bold_metadata_list],
     synchronize |-> TRUE]

\* node objects constructed whether or not they are connected
AlwaysCreated ==
    {"input_node", "output_node", "betaseries_wf", "correlation_wf",
     "ds_correlation_matrix", "ds_correlation_fig", "ds_betaseries_file"}

\* connections of the beta series workflow
BaseEdges ==
    {Edge("input_node", "preproc_img", "betaseries_wf", "input_node.bold_file"),
     Edge("input_node", "events_tsv", "betaseries_wf", "input_node.events_file"),
     Edge("input_node", "brainmask", "betaseries_wf", "input_node.bold_mask_file"),
     Edge("input_node", "confound_tsv", "betaseries_wf", "input_node.confounds_file"),
     Edge("input_node", "bold_metadata", "betaseries_wf", "input_node.bold_metadata"),
     Edge("betaseries_wf", "output_node.betaseries_files", "output_node", "betaseries_file"),
     Edge("input_node", "preproc_img", "ds_betaseries_file", "source_file"),
     Edge("output_node", "betaseries_file", "ds_betaseries_file", "in_file")}

\* the atlas connections with the censored files fed straight to correlation
AtlasEdgesUnfiltered ==
    {Edge("input_node", "brainmask", "censor_volumes", "mask_file"),
     Edge("betaseries_wf", "output_node.betaseries_files", "censor_volumes", "timeseries_file"),
     Edge("censor_volumes", "censored_file", "check_beta_series_list", "beta_series_list"),
     Edge("censor_volumes", "censored_file", "correlation_wf", "input_node.betaseries_files"),
     Edge("input_node", "atlas_img", "correlation_wf", "input_node.atlas_file"),
     Edge("input_node", "atlas_lut", "correlation_wf", "input_node.atlas_lut"),
     Edge("correlation_wf", "output_node.correlation_matrix", "output_node", "correlation_matrix"),
     Edge("correlation_wf", "output_node.correlation_fig", "output_node", "correlation_fig"),
     Edge("input_node", "preproc_img", "ds_correlation_matrix", "source_file"),
     Edge("output_node", "correlation_matrix", "ds_correlation_matrix", "in_file"),
     Edge("input_node", "preproc_img", "ds_correlation_fig", "source_file"),
     Edge("output_node", "correlation_fig", "ds_correlation_fig", "in_file")}

\* connections of the atlas workflow
AtlasEdges ==
    {Edge("input_node", "brainmask", "censor_volumes", "mask_file"),
     Edge("betaseries_wf", "output_node.betaseries_files", "censor_volumes", "timeseries_file"),
     Edge("censor_volumes", "censored_file", "check_beta_series_list", "beta_series_list"),
     Edge("check_beta_series_list", "beta_series_list", "correlation_wf", "input_node.betaseries_files"),
     Edge("input_node", "atlas_img", "correlation_wf", "input_node.atlas_file"),
     Edge("input_node", "atlas_lut", "correlation_wf", "input_node.atlas_lut"),
     Edge("correlation_wf", "output_node.correlation_matrix", "output_node", "correlation_matrix"),
     Edge("correlation_wf", "output_node.correlation_fig", "output_node", "correlation_fig"),
     Edge("input_node", "preproc_img", "ds_correlation_matrix", "source_file"),
     Edge("output_node", "correlation_matrix", "ds_correlation_matrix", "in_file"),
     Edge("input_node", "preproc_img", "ds_correlation_fig", "source_file"),
     Edge("output_node", "correlation_fig", "ds_correlation_fig", "in_file")}

\* connections of the residual output
ResidualEdges ==
    {Edge("betaseries_wf", "output_node.residual_file", "output_node", "residual_file"),
     Edge("output_node", "residual_file", "ds_residual_file", "in_file"),
     Edge("input_node", "preproc_img", "ds_residual_file", "source_file")}

\* the connections with the atlas branch taken when either atlas input is given
EdgesForEitherAtlas(aimg, alut, residuals) ==
    BaseEdges
    \cup (IF Truthy(aimg) \/ Truthy(alut) THEN AtlasEdges ELSE {})
    \cup (IF residuals THEN ResidualEdges ELSE {})

\* the connections with the residual branch tied to the atlas test
EdgesForResidualsWithAtlas(aimg, alut, residuals) ==
    BaseEdges
    \cup (IF Truthy(aimg) /\ Truthy(alut) THEN AtlasEdges \cup ResidualEdges ELSE {})

\* every workflow.connect of init_single_subject_wf
EdgesFor(aimg, alut, residuals) ==
    BaseEdges
    \cup (IF Truthy(aimg) /\ Truthy(alut) THEN AtlasEdges ELSE {})
    \cup (IF residuals THEN ResidualEdges ELSE {})

\* workflow.connect adds the nodes it connects to the graph
NodesOf(edges) == {e[1] : e \in edges} \cup {e[3] : e \in edges}

init_single_subject_wf(name, aimg, alut, bold_metadata_list, brainmask_list, confound_tsv_list, events_tsv_list, preproc_img_list, residuals) ==
    LET input == InputNode(brainmask_list, confound_tsv_list, events_tsv_list,
                           preproc_img_list, bold_metadata_list)
        edges == EdgesFor(aimg, alut, residuals)
        atlas == Truthy(aimg) /\ Truthy(alut)
    IN  [name        |-> name,
         edges       |-> edges,
         nodes       |-> NodesOf(edges),
         created     |-> AlwaysCreated
                         \cup (IF atlas THEN {"check_beta_series_list",
                                              "censor_volumes"} ELSE {})
                         \cup (IF residuals THEN {"ds_residual_file"} ELSE {}),
         iterables   |-> input.iterables,
         synchronize |-> input.synchronize,
         inputs      |-> [atlas_img |-> IF atlas THEN aimg ELSE NoneVal,
                          atlas_lut |-> IF atlas THEN alut ELSE NoneVal]]

(***************************************************************************)
(* init_nibetaseries_participant_wf                                        *)
(***************************************************************************)
WorkflowName(subject_label) == "single_subject" \o subject_label \o "_wf"

\* os.path.join(output_dir, "nibetaseries", "sub-" + subject_label, 'log')
CrashdumpDir(subject_label) ==
    <<output_dir, "nibetaseries", "sub-" \o subject_label, "log">>

DefaultConfig == [crashdump_dir |-> <<>>]

WfOwner == "workflow"
ConfigRef(subject_label, owner) == <<subject_label, owner>>

\* node.config = single_subject_wf.config, without the copy
NodeConfigsShared(subject_label, nodes, wfconfig) ==
    [refs |-> [n \in nodes |-> ConfigRef(subject_label, WfOwner)],
     objs |-> [r \in {ConfigRef(subject_label, WfOwner)} |-> wfconfig]]

\* for node in _get_all_nodes(): node.config = deepcopy(single_subject_wf.config)
NodeConfigs(subject_label, nodes, wfconfig) ==
    [refs |-> [n \in nodes |-> ConfigRef(subject_label, n)],
     objs |-> [r \in {ConfigRef(subject_label, n) : n \in nodes} |-> wfconfig]]

\* one pass of the loop over subject_list
BuildSubject ==
    /\ ppc = "loop"
    /\ Len(pwf) < Len(subject_list)
    /\ LET subject_label == subject_list[Len(pwf) + 1]
       IN  \E n \in 0..MaxRuns :
           LET subject_data       == SubjectData(subject_label, n)
               brainmask_list     == [r \in 1..n |-> subject_data[r].brainmask]
               confound_tsv_list  == [r \in 1..n |-> subject_data[r].confounds]
               events_tsv_list    == [r \in 1..n |-> subject_data[r].events]
               preproc_img_list   == [r \in 1..n |-> subject_data[r].preproc]
               bold_metadata_list == [r \in 1..n |-> subject_data[r].metadata]
               wf == init_single_subject_wf(
                         WorkflowName(subject_label), atlas_img, atlas_lut,
                         bold_metadata_list, brainmask_list, confound_tsv_list,
                         events_tsv_list, preproc_img_list, return_residuals)
               wfconfig == [DefaultConfig EXCEPT
                               !.crashdump_dir = CrashdumpDir(subject_label)]
               nc == NodeConfigs(subject_label, wf.nodes, wfconfig)
               built == [name |-> wf.name, edges |-> wf.edges, nodes |-> wf.nodes,
                         created |-> wf.created, iterables |-> wf.iterables,
                         synchronize |-> wf.synchronize, inputs |-> wf.inputs,
                         config |-> ConfigRef(subject_label, WfOwner),
                         nodecfg |-> nc.refs]
           IN  /\ wfs' = (subject_label :> built) @@ wfs
               /\ cfgs' = nc.objs
                          @@ (ConfigRef(subject_label, WfOwner) :> wfconfig)
                          @@ cfgs
               /\ pwf' = Append(pwf, wf.name)
    /\ UNCHANGED <<atlas_img, atlas_lut, return_residuals, subject_list, ppc,
                   touched, filter_vars, files, exec_vars>>

\* return nibetaseries_participant_wf
ReturnParticipant ==
    /\ ppc = "loop"
    /\ Len(pwf) = Len(subject_list)
    /\ ppc' = "returned"
    /\ UNCHANGED <<atlas_img, atlas_lut, return_residuals, subject_list, pwf,
                   wfs, cfgs, touched, filter_vars, files, exec_vars>>

\* a later change of one owner's config: owner.config['execution'][...] = value
ElsewhereDir == <<"elsewhere">>

SetConfig ==
    /\ ppc = "returned"
    /\ inst = {}
    /\ touched = {}
    /\ \E s \in DOMAIN wfs :
       \E owner \in wfs[s].nodes \cup {WfOwner} :
           LET ref == IF owner = WfOwner THEN wfs[s].config
                      ELSE wfs[s].nodecfg[owner]
           IN  /\ cfgs' = [cfgs EXCEPT ![ref].crashdump_dir = ElsewhereDir]
               /\ touched' = {<<s, owner>>}
    /\ UNCHANGED <<atlas_img, atlas_lut, return_residuals, subject_list, ppc,
                   pwf, wfs, filter_vars, files, exec_vars>>

(***************************************************************************)
(* Execution of the assembled graph by the workflow engine: the identity   *)
(* nodes pass their fields through, the iterables of input_node expand the *)
(* graph into one instance per parameter set, and a node runs once every   *)
(* node it takes an input from has run successfully.                       *)
(***************************************************************************)
IdentityNodes == {"input_node", "output_node"}
CheckNode == "check_beta_series_list"
Sinks == {"ds_betaseries_file", "ds_correlation_matrix", "ds_correlation_fig",
          "ds_residual_file"}

ProductOf(it) ==
    {[brainmask |-> a, confound_tsv |-> b, events_tsv |-> c, preproc_img |-> d,
      bold_metadata |-> e] :
        a \in Range(it.brainmask), b \in Range(it.confound_tsv),
        c \in Range(it.events_tsv), d \in Range(it.preproc_img),
        e \in Range(it.bold_metadata)}

\* the parameter sets input_node is expanded into
Expansions(wf) ==
    IF wf.synchronize
    THEN {[f \in IterFields |-> wf.iterables[f][r]] :
             r \in 1..Len(wf.iterables.preproc_img)}
    ELSE ProductOf(wf.iterables)

RECURSIVE Origins(_, _, _)
\* the producers of field uf of node u, looking through output_node
Origins(edges, u, uf) ==
    IF u = "output_node"
    THEN UNION {Origins(edges, e[1], e[2]) :
                   e \in {x \in edges : x[3] = u /\ x[4] = uf}}
    ELSE {<<u, uf>>}

InEdges(edges, n) == {e \in edges : e[3] = n}

Deps(edges, n) ==
    {o[1] : o \in UNION {Origins(edges, e[1], e[2]) : e \in InEdges(edges, n)}}
        \ IdentityNodes

TheInst == CHOOSE x \in inst : TRUE
TheWf   == wfs[TheInst.subject]

Done(n) ==
    IF n = CheckNode THEN n \in DOMAIN ran /\ pc = "returned"
    ELSE n \in DOMAIN ran

Ready(n) ==
    /\ inst # {}
    /\ n \in TheWf.nodes \ IdentityNodes
    /\ n \notin DOMAIN ran
    /\ \A d \in Deps(TheWf.edges, n) : Done(d)

ValueOf(o) ==
    IF o[1] = "input_node"
    THEN IF o[2] \in IterFields THEN TheInst.params[o[2]]
         ELSE TheWf.inputs[o[2]]
    ELSE IF o[1] = CheckNode THEN lists[ret]
    ELSE outs[o]

\* what node n receives on each connected input field
Inputs(n) ==
    [f \in {e[4] : e \in InEdges(TheWf.edges, n)} |->
        ValueOf(CHOOSE o \in UNION {Origins(TheWf.edges, e[1], e[2]) :
                                       e \in {x \in InEdges(TheWf.edges, n) :
                                                 x[4] = f}} : TRUE)]

Quiescent ==
    IF inst = {} THEN TRUE
    ELSE /\ pc \notin {"comp", "test"}
         /\ \A n \in TheWf.nodes : ~Ready(n)

\* the engine takes up one expanded instance of one subject's graph
StartInstance ==
    /\ ppc = "returned"
    /\ touched = {}
    /\ Quiescent
    /\ \E s \in DOMAIN wfs :
       \E e \in Expansions(wfs[s]) :
           inst' = {[subject |-> s, params |-> e]}
    /\ ran' = <<>>
    /\ outs' = <<>>
    /\ pc' = "idle"
    /\ lists' = << <<>>, <<>> >>
    /\ bsl' = Caller
    /\ i' = 1
    /\ log' = <<>>
    /\ ret' = NoRet
    /\ arg0' = <<>>
    /\ UNCHANGED <<files, build_vars>>

\* betaseries_wf: yields one beta-series file per trial type, and residuals
RunBetaseries ==
    /\ Ready("betaseries_wf")
    /\ ran' = ("betaseries_wf" :> Inputs("betaseries_wf")) @@ ran
    /\ \E n \in 1..MaxTT :
           outs' = (<<"betaseries_wf", "output_node.betaseries_files">> :>
                        [j \in 1..n |-> <<"betaseries", j>>])
                   @@ (<<"betaseries_wf", "output_node.residual_file">> :>
                        <<"residual">>)
                   @@ outs
    /\ UNCHANGED <<inst, build_vars, filter_vars, files>>

\* censor_volumes (MapNode over timeseries_file): one censored file per input
RunCensor ==
    /\ Ready("censor_volumes")
    /\ LET in == Inputs("censor_volumes")
       IN  /\ ran' = ("censor_volumes" :> in) @@ ran
           /\ \E c \in [1..Len(in.timeseries_file) -> CensoredPaths] :
                  outs' = (<<"censor_volumes", "censored_file">> :> c) @@ outs
    /\ UNCHANGED <<inst, build_vars, filter_vars, files>>

\* check_beta_series_list: the Function node calls _check_bs_len on its input
StartCheck ==
    /\ Ready(CheckNode)
    /\ LET in == Inputs(CheckNode)
       IN  /\ ran' = (CheckNode :> in) @@ ran
           /\ arg0' = in.beta_series_list
           /\ lists' = <<in.beta_series_list, <<>>>>
    /\ bsl' = Caller
    /\ i' = 1
    /\ log' = <<>>
    /\ ret' = NoRet
    /\ pc' = "comp"
    /\ UNCHANGED <<inst, outs, files, build_vars>>

\* correlation_wf
RunCorrelation ==
    /\ Ready("correlation_wf")
    /\ ran' = ("correlation_wf" :> Inputs("correlation_wf")) @@ ran
    /\ outs' = (<<"correlation_wf", "output_node.correlation_matrix">> :>
                    <<"correlation_matrix">>)
               @@ (<<"correlation_wf", "output_node.correlation_fig">> :>
                    <<"correlation_fig">>)
               @@ outs
    /\ UNCHANGED <<inst, build_vars, filter_vars, files>>

\* a DerivativesDataSink node
RunSink ==
    \E n \in Sinks :
        /\ Ready(n)
        /\ ran' = (n :> Inputs(n)) @@ ran
        /\ UNCHANGED <<inst, outs, build_vars, filter_vars, files>>

InitWf ==
    /\ atlas_img \in AtlasVals
    /\ atlas_lut \in AtlasVals
    /\ return_residuals \in BOOLEAN
    /\ subject_list \in SubjectLists
    /\ ppc = "loop"
    /\ pwf = <<>>
    /\ wfs = <<>>
    /\ cfgs = <<>>
    /\ touched = {}
    /\ inst = {}
    /\ ran = <<>>
    /\ outs = <<>>
    /\ pc = "idle"
    /\ lists = << <<>>, <<>> >>
    /\ bsl = Caller
    /\ i = 1
    /\ log = <<>>
    /\ ret = NoRet
    /\ arg0 = <<>>
    /\ files = ImagesOnDisk

NextWf ==
    \/ BuildSubject
    \/ ReturnParticipant
    \/ SetConfig
    \/ StartInstance
    \/ RunBetaseries
    \/ RunCensor
    \/ StartCheck
    \/ FilterStep
    \/ RunCorrelation
    \/ RunSink

SpecWf == InitWf /\ [][NextWf]_vars

(***************************************************************************)
(* Properties of _check_bs_len (checked under Spec)                        *)
(***************************************************************************)
Occurrences(x, s) == Cardinality({j \in 1..Len(s) : s[j] = x})
TrialCount(path) == FileShape(path)[Len(FileShape(path))]

IsSubsequence(sub, whole) ==
    \E f \in [1..Len(sub) -> 1..Len(whole)] :
        /\ \A j \in 1..Len(sub) : sub[j] = whole[f[j]]
        /\ \A j \in 1..Len(sub), l \in 1..Len(sub) : j < l => f[j] < f[l]

\* C1: when _check_bs_len returns, the returned sequence is a subsequence of
\* the input: only entries of the input, each as often as in the input, in
\* their original relative order.
C1_Subsequence ==
    pc = "returned" =>
        /\ IsSubsequence(lists[ret], arg0)
        /\ \A x \in Range(lists[ret]) :
               Occurrences(x, lists[ret]) = Occurrences(x, arg0)

C1_Witness ==
    /\ pc = "returned"
    /\ Len(lists[ret]) = 2
    /\ lists[ret][1] # lists[ret][2]
    /\ Len(arg0) = 3

\* C2: a path of the input is in the returned sequence iff its trial count
\* (last entry of its image shape) is >= 3; exactly 3 is kept.
C2_KeptIffEnough ==
    pc = "returned" =>
        \A x \in Range(arg0) : (x \in Range(lists[ret])) <=> (TrialCount(x) >= 3)

C2_Witness ==
    /\ pc = "returned"
    /\ P_three \in Range(lists[ret])
    /\ P_faces \in Range(arg0)

\* C3: the call raises exactly when no path of the input has trial count >= 3
\* (the empty input included) and then returns nothing; otherwise it returns a
\* non-empty sequence.
C3_RaisesIffNoneLeft ==
    /\ pc = "raised" =>
          /\ \A x \in Range(arg0) : TrialCount(x) < 3
          /\ ret = NoRet
    /\ pc = "returned" =>
          /\ \E x \in Range(arg0) : TrialCount(x) >= 3
          /\ ret # NoRet
          /\ lists[ret] # <<>>
    /\ pc = "test" =>
          (ENABLED Raise <=> \A x \in Range(arg0) : TrialCount(x) < 3)

C3_Witness ==
    /\ pc = "raised"
    /\ arg0 = <<>>

\* C4 as claimed: after a failing call the caller's collection holds the same
\* entries as before the call.
C4_CallerListKeptOnFailure ==
    pc = "raised" => lists[Caller] = arg0

\* C4 amended: when every path has trial count < 3 the call raises, returns
\* nothing and builds no partial result, but the caller's collection has been
\* emptied in place by the failing call.
C4_FailureEmptiesCallerList ==
    /\ (pc \in {"test", "raised", "returned"}
          /\ \A x \in Range(arg0) : TrialCount(x) < 3) => pc # "returned"
    /\ pc = "raised" =>
          /\ \A x \in Range(arg0) : TrialCount(x) < 3
          /\ ret = NoRet
          /\ lists[Caller] = <<>>
          /\ lists[Fresh] = <<>>

C4_Witness ==
    /\ pc = "raised"
    /\ Len(arg0) >= 2
    /\ lists[Caller] # arg0

\* the part of the input the comprehension has gone through
Processed == SubSeq(arg0, 1, i - 1)
Excluded(s) == {j \in 1..Len(s) : TrialCount(s[j]) < 3}
Unparsable(s) == {j \in 1..Len(s) : ~ReMatch(s[j])}
LabelOf(path) == IF ReMatch(path) THEN TrialTypeGroup(path) ELSE UNKNOWN
FewFor(path) == WarnFew(3, LabelOf(path), TrialCount(path))
Logged(w) == Cardinality({j \in 1..Len(log) : log[j] = w})

\* every excluded entry has its own warning with label, minimum 3 and count
ExclusionsWarned ==
    \A j \in Excluded(Processed) :
        Logged(FewFor(Processed[j])) =
            Cardinality({l \in Excluded(Processed) :
                            FewFor(Processed[l]) = FewFor(Processed[j])})

\* C5 as claimed: one warning per exclusion, one unknown-label warning per
\* entry of the input whose name does not match, nothing for the rest.
C5_WarnEveryUnparsable ==
    /\ ExclusionsWarned
    /\ \A j \in Unparsable(Processed) :
           Logged(WarnUnknown(Processed[j])) >= 1
    /\ Len(log) = Cardinality(Excluded(Processed))
                    + Cardinality(Unparsable(Processed))

\* C5 amended: each excluded entry produces exactly one warning with its
\* label, the minimum 3 and its count; the unknown-label warning is emitted
\* only for excluded entries whose name does not match (label "UNKNOWN");
\* a retained entry produces no warning, whether its name matches or not.
C5_WarnExcludedOnly ==
    /\ ExclusionsWarned
    /\ \A j \in Unparsable(Processed) :
           Logged(WarnUnknown(Processed[j])) =
               Cardinality({l \in Excluded(Processed) \cap Unparsable(Processed) :
                               Processed[l] = Processed[j]})
    /\ Len(log) = Cardinality(Excluded(Processed))
                    + Cardinality(Excluded(Processed) \cap Unparsable(Processed))
    /\ P_faces \in Range(Processed) =>
           Logged(<<"too few trials", 3, <<"F","A","C","E","S">>, 2>>) >= 1
    /\ P_nodesc \in Range(Processed) =>
           /\ Logged(<<"too few trials", 3, UNKNOWN, 1>>) >= 1
           /\ Logged(<<"unknown trial_type", P_nodesc>>) >= 1

C5_Witness ==
    /\ pc = "returned"
    /\ P_five \in Range(arg0)
    /\ P_nodesc \in Range(arg0)
    /\ Len(log) = 2

EnoughTrials(path) == ImageShapeOf(path)[Len(ImageShapeOf(path))] >= 3

\* C11: _check_bs_len filters the caller's list in place: after a successful
\* call the caller's list holds the input with the entries below the minimum
\* removed and the survivors in order, the value returned is that same list
\* object, and no image is written, created or deleted at any step.
C11_FilteredInPlace ==
    /\ files = ImagesOnDisk
    /\ pc = "returned" =>
           /\ ret = Caller
           /\ lists[Caller] = SelectSeq(arg0, EnoughTrials)
           /\ lists[ret] = lists[Caller]

C11_Witness ==
    /\ pc = "returned"
    /\ ret = Caller
    /\ Len(arg0) = 3
    /\ Len(lists[Caller]) = 1
    /\ arg0[3] = lists[Caller][1]

(***************************************************************************)
(* Properties of the assembled workflows (checked under SpecWf)            *)
(***************************************************************************)
BothAtlasGiven ==
    /\ atlas_img # NoneVal /\ atlas_img # ""
    /\ atlas_lut # NoneVal /\ atlas_lut # ""

AtlasNodes == {"censor_volumes", "check_beta_series_list", "correlation_wf",
               "ds_correlation_matrix", "ds_correlation_fig"}

Feeders(w, n, f) == {<<e[1], e[2]>> : e \in {x \in w.edges : x[3] = n /\ x[4] = f}}
HasRun(n) == inst # {} /\ n \in DOMAIN ran

\* C6: with the atlas branch built, correlation takes its beta series only
\* from the count filter and the filter its input only from censoring; in
\* every execution of a run the order is estimation, censoring, filter,
\* correlation; correlation never receives a file with fewer than 3 trials,
\* and after a failing filter neither correlation nor its two sinks run.
C6_CorrelationBehindFilter ==
    /\ \A s \in DOMAIN wfs :
           BothAtlasGiven =>
               /\ Feeders(wfs[s], "correlation_wf", "input_node.betaseries_files")
                      = {<<"check_beta_series_list", "beta_series_list">>}
               /\ {<<e[1], e[2]>> : e \in InEdges(wfs[s].edges, "check_beta_series_list")}
                      = {<<"censor_volumes", "censored_file">>}
               /\ Feeders(wfs[s], "censor_volumes", "timeseries_file")
                      = {<<"betaseries_wf", "output_node.betaseries_files">>}
    /\ HasRun("censor_volumes") => HasRun("betaseries_wf")
    /\ HasRun("check_beta_series_list") =>
           /\ HasRun("censor_volumes")
           /\ arg0 = outs[<<"censor_volumes", "censored_file">>]
    /\ HasRun("correlation_wf") =>
           /\ HasRun("check_beta_series_list")
           /\ pc = "returned"
           /\ ran["correlation_wf"]["input_node.betaseries_files"] = lists[ret]
           /\ \A x \in Range(ran["correlation_wf"]["input_node.betaseries_files"]) :
                  TrialCount(x) >= 3
    /\ \A n \in {"ds_correlation_matrix", "ds_correlation_fig"} :
           HasRun(n) => HasRun("correlation_wf")
    /\ (inst # {} /\ pc = "raised") =>
           DOMAIN ran \cap {"correlation_wf", "ds_correlation_matrix",
                            "ds_correlation_fig"} = {}

C6_Witness ==
    /\ HasRun("correlation_wf")
    /\ HasRun("ds_correlation_fig")
    /\ Len(arg0) = 2
    /\ Len(ran["correlation_wf"]["input_node.betaseries_files"]) = 1

\* C7: the censoring node, the count filter, the correlation sub-graph and
\* the two correlation sinks are in the assembled workflow iff atlas image
\* and lookup table are both given; otherwise none of them is there and no
\* censoring step runs; the beta-series sub-graph and its sink, tagged with
\* the preprocessed image, are there in every case.
C7_AtlasBranchIffBothGiven ==
    /\ \A s \in DOMAIN wfs :
           /\ (AtlasNodes \subseteq wfs[s].nodes) <=> BothAtlasGiven
           /\ ~BothAtlasGiven => AtlasNodes \cap wfs[s].nodes = {}
           /\ {"betaseries_wf", "ds_betaseries_file"} \subseteq wfs[s].nodes
           /\ Feeders(wfs[s], "ds_betaseries_file", "source_file")
                  = {<<"input_node", "preproc_img">>}
           /\ UNION {Origins(wfs[s].edges, o[1], o[2]) :
                        o \in Feeders(wfs[s], "ds_betaseries_file", "in_file")}
                  = {<<"betaseries_wf", "output_node.betaseries_files">>}
           /\ BothAtlasGiven =>
                  \A n \in {"ds_correlation_matrix", "ds_correlation_fig"} :
                      Feeders(wfs[s], n, "source_file")
                          = {<<"input_node", "preproc_img">>}
    /\ (inst # {} /\ ~BothAtlasGiven) => AtlasNodes \cap DOMAIN ran = {}
    /\ HasRun("ds_betaseries_file") =>
           ran["ds_betaseries_file"].source_file = TheInst.params.preproc_img

C7_Witness ==
    /\ atlas_img = "atlas"
    /\ atlas_lut = ""
    /\ HasRun("ds_betaseries_file")
    /\ "censor_volumes" \notin TheWf.nodes

\* C8: the residual sink, fed by the beta-series sub-graph's residual output
\* and tagged with the preprocessed image, is in the assembled workflow iff
\* the residuals flag is set, whatever the atlas inputs; without the flag the
\* residual output is connected to nothing.
C8_ResidualSinkIffFlag ==
    /\ \A s \in DOMAIN wfs :
           /\ ("ds_residual_file" \in wfs[s].nodes) <=> return_residuals
           /\ return_residuals =>
                  /\ Feeders(wfs[s], "ds_residual_file", "source_file")
                         = {<<"input_node", "preproc_img">>}
                  /\ UNION {Origins(wfs[s].edges, o[1], o[2]) :
                               o \in Feeders(wfs[s], "ds_residual_file", "in_file")}
                         = {<<"betaseries_wf", "output_node.residual_file">>}
           /\ ~return_residuals =>
                  \A e \in wfs[s].edges :
                      /\ e[2] # "output_node.residual_file"
                      /\ e[2] # "residual_file"
                      /\ e[4] # "residual_file"
    /\ HasRun("ds_residual_file") =>
           /\ return_residuals
           /\ ran["ds_residual_file"].source_file = TheInst.params.preproc_img
           /\ ran["ds_residual_file"].in_file = <<"residual">>

C8_Witness ==
    /\ HasRun("ds_residual_file")
    /\ ~BothAtlasGiven
    /\ "correlation_wf" \notin TheWf.nodes

Owners(s) == wfs[s].nodes \cup {WfOwner}
RefOf(s, owner) == IF owner = WfOwner THEN wfs[s].config ELSE wfs[s].nodecfg[owner]

\* C9: the participant workflow holds one sub-graph per subject of the list,
\* named 'single_subject' + label + '_wf' and built from that subject's runs
\* only; every node has its own config object whose crash-dump directory is
\* output_dir/nibetaseries/sub-<label>/log, so a change to one owner's config
\* reaches no other node and no other subject.
C9_OneIsolatedGraphPerSubject ==
    /\ Len(pwf) <= Len(subject_list)
    /\ \A k \in 1..Len(pwf) :
           /\ pwf[k] = "single_subject" \o subject_list[k] \o "_wf"
           /\ subject_list[k] \in DOMAIN wfs
           /\ wfs[subject_list[k]].name = pwf[k]
    /\ ppc = "returned" =>
           /\ Len(pwf) = Len(subject_list)
           /\ DOMAIN wfs = Range(subject_list)
    /\ \A s \in DOMAIN wfs :
           /\ \A f \in IterFields :
                  \A r \in 1..Len(wfs[s].iterables[f]) :
                      wfs[s].iterables[f][r][2] = s
           /\ \A o \in Owners(s) :
                  /\ RefOf(s, o) \in DOMAIN cfgs
                  /\ <<s, o>> \notin touched =>
                         cfgs[RefOf(s, o)].crashdump_dir
                             = <<"out", "nibetaseries", "sub-" \o s, "log">>
                  /\ \A t \in DOMAIN wfs :
                         \A q \in Owners(t) :
                             <<s, o>> # <<t, q>> => RefOf(s, o) # RefOf(t, q)

C9_Witness ==
    /\ ppc = "returned"
    /\ Len(subject_list) = 2
    /\ \E s \in DOMAIN wfs : <<s, "betaseries_wf">> \in touched

InputKind ==
    [brainmask |-> "brainmask", confound_tsv |-> "confounds",
     events_tsv |-> "events", preproc_img |-> "preproc",
     bold_metadata |-> "metadata"]

\* C10: the five per-run lists of a subject have one entry per collected run
\* and are index-aligned, input_node iterates them synchronized, and every
\* execution of the beta-series sub-graph gets image, mask, confounds, events
\* and metadata of one and the same run.
C10_RunsStayAligned ==
    /\ \A s \in DOMAIN wfs :
           /\ wfs[s].synchronize
           /\ \A f \in IterFields :
                  /\ Len(wfs[s].iterables[f]) = Len(wfs[s].iterables.preproc_img)
                  /\ \A r \in 1..Len(wfs[s].iterables[f]) :
                         wfs[s].iterables[f][r] = <<InputKind[f], s, r>>
    /\ HasRun("betaseries_wf") =>
           \E r \in 1..MaxRuns :
               LET in == ran["betaseries_wf"]
                   s  == TheInst.subject
               IN  /\ in["input_node.bold_file"] = <<"preproc", s, r>>
                   /\ in["input_node.bold_mask_file"] = <<"brainmask", s, r>>
                   /\ in["input_node.confounds_file"] = <<"confounds", s, r>>
                   /\ in["input_node.events_file"] = <<"events", s, r>>
                   /\ in["input_node.bold_metadata"] = <<"metadata", s, r>>
    /\ HasRun("censor_volumes") =>
           ran["censor_volumes"].mask_file[3]
               = ran["betaseries_wf"]["input_node.bold_file"][3]

C10_Witness ==
    /\ HasRun("betaseries_wf")
    /\ Len(TheWf.iterables.preproc_img) = 2
    /\ ran["betaseries_wf"]["input_node.bold_file"][3] = 2
    /\ HasRun("censor_volumes")

====
